---- MODULE Spec2Model ----
(***************************************************************************)
(* GetOpenAIQuota.py: a linear script that pages through the organization  *)
(* costs endpoint, accumulates every cost line item, prints a report and   *)
(* writes TotalCost.json and TotalEntry.json.                              *)
(*                                                                         *)
(* Python values are modelled as follows.  An optional value (a dict key   *)
(* that may be absent, a variable that may be None) is a sequence of       *)
(* length 0 or 1.  Costs are integers in micro-units (1.234567 is          *)
(* 1234567), so that the ":.6f" rendering is exact.  Fields the script     *)
(* only echoes to the console (currency, line_item, project_id, bucket     *)
(* start_time and end_time) are left out of the records.                   *)
(***************************************************************************)
EXTENDS Integers, Sequences, FiniteSets, TLC

\* Bounds of the exploration.
MaxFetch == 3       \* requests issued in one run
MaxBuckets == 2     \* buckets in one page
MaxResults == 2     \* results in one bucket
MaxEntries == 2     \* results served over the whole run

None == <<>>
Some(x) == <<x>>

\* dict.get(key, default) on an optional field
Get(opt, default) == IF opt = None THEN default ELSE opt[1]

SeqsUpTo(S, n) == UNION {[1..k -> S] : k \in 0..n}

-----------------------------------------------------------------------------
(* Inputs *)

PLACEHOLDER == "your_openai_admin_key_here"

\* OPENAI_ADMIN_API_KEY in the environment: unset, empty, the placeholder, a key
EnvKeys == {None, Some(""), Some(PLACEHOLDER), Some("sk-admin-key")}

\* int(time.time()) when the script starts
Clock == {1762180000}

\* amount.value of a line item, in micro-units
Values == {1234567, 2000000}

\* A Result: amount absent, amount without value, or amount with a value
Amounts == {None} \cup {Some([value |-> v]) : v \in {None} \cup {Some(x) : x \in Values}}
Results == [amount : Amounts]

\* A CostBucket: its list of Results
Buckets == [results : {Some(s) : s \in SeqsUpTo(Results, MaxResults)}]

\* Cursors the server may hand out
Cursors == {"p2", ""}

\* The bucket lists of at most n buckets that carry at most room Results
RECURSIVE DataWithin(_, _)
DataWithin(n, room) ==
    {<<>>} \cup
    IF n = 0 THEN {}
    ELSE UNION {{<<b>> \o d : d \in DataWithin(n - 1, room - Len(Get(b.results, <<>>)))} :
                    b \in {x \in Buckets : Len(Get(x.results, <<>>)) <= room}}

\* The JSON object bodies that carry at most room Results: each of data,
\* has_more, next_page present or absent; next_page is present only when
\* has_more is true
DictsWithin(room) ==
    {d \in [kind : {"dict"},
            data : {None} \cup {Some(b) : b \in DataWithin(MaxBuckets, room)},
            has_more : {None, Some(TRUE), Some(FALSE)},
            next_page : {None} \cup {Some(c) : c \in Cursors}] :
        d.next_page # None => d.has_more = Some(TRUE)}

PyNone == [kind |-> "None", data |-> None, has_more |-> None, next_page |-> None]
\* A JSON body that is a non-empty array
PyList == [kind |-> "list", data |-> None, has_more |-> None, next_page |-> None]

\* What requests.get meets: no connection, an error status (whose body is
\* JSON or not), or a 2xx status (whose body is JSON or not).  decode names
\* the exception response.json() raises on a body that is not JSON:
\* requests.exceptions.JSONDecodeError (a RequestException) since requests
\* 2.27, a plain ValueError before.  The pages carry at most room Results.
ResponsesWithin(room) ==
    [kind : {"transport_error"}, json : {FALSE}, decode : {"RequestException"}, body : {PyNone}]
    \cup [kind : {"http_error"}, json : BOOLEAN, decode : {"RequestException"}, body : {PyNone}]
    \cup [kind : {"ok"}, json : {FALSE}, decode : {"RequestException", "ValueError"}, body : {PyNone}]
    \cup [kind : {"ok"}, json : {TRUE}, decode : {"RequestException"},
          body : DictsWithin(room) \cup {PyNone, PyList}]

\* The responses that keep the run within MaxEntries, by remaining room
Responses == [room \in 0..MaxEntries |-> ResponsesWithin(room)]

\* Number of Results a body carries, and the sum of their values (history only)
RECURSIVE SumTo(_, _)
SumTo(f, n) == IF n = 0 THEN 0 ELSE f[n] + SumTo(f, n - 1)

ValueOf(result) ==
    IF result.amount = None THEN 0
    ELSE IF result.amount[1].value = None THEN 0
    ELSE result.amount[1].value[1]

BucketList(body) == IF body.kind = "dict" /\ body.data # None THEN body.data[1] ELSE <<>>
ResultList(bucket) == IF bucket.results = None THEN <<>> ELSE bucket.results[1]

ResultCount(body) ==
    LET d == BucketList(body)
    IN SumTo([i \in 1..Len(d) |-> Len(ResultList(d[i]))], Len(d))

ValueSum(body) ==
    LET d == BucketList(body)
        BSum(b) == SumTo([j \in 1..Len(b) |-> ValueOf(b[j])], Len(b))
    IN SumTo([i \in 1..Len(d) |-> BSum(ResultList(d[i]))], Len(d))

-----------------------------------------------------------------------------
(* Python semantics the script relies on *)

\* bool(v) of a parsed body: None and the empty dict are falsy
Truthy(v) ==
    CASE v.kind = "None" -> FALSE
      [] v.kind = "list" -> TRUE
      [] v.kind = "dict" -> v.data # None \/ v.has_more # None \/ v.next_page # None

\* bool(v) of an optional boolean (cost_info.get("has_more"))
TruthyFlag(opt) == opt # None /\ opt[1]

\* bool(v) of an optional string (if next_page:)
TruthyStr(opt) == opt # None /\ opt[1] # ""

\* "data" not in cost_info: a missing key of a dict, a missing element of a list
DataNotIn(v) == IF v.kind = "dict" THEN v.data = None ELSE TRUE

Million == 1000 * 1000

\* the six digits after the point
Frac6(n) ==
    CASE n < 10 -> "00000" \o ToString(n)
      [] n >= 10 /\ n < 100 -> "0000" \o ToString(n)
      [] n >= 100 /\ n < 1000 -> "000" \o ToString(n)
      [] n >= 1000 /\ n < 10000 -> "00" \o ToString(n)
      [] n >= 10000 /\ n < 100000 -> "0" \o ToString(n)
      [] n >= 100000 -> ToString(n)

\* ":.2f" for ":.6f" (truncating)
Fmt2(micro) ==
    LET cents == (micro % Million) \div 10000
    IN ToString(micro \div Million) \o "."
         \o (IF cents < 10 THEN "0" ELSE "") \o ToString(cents)

\* f"{x:.6f}" of a non-negative cost held in micro-units
Fmt6(micro) == ToString(micro \div Million) \o "." \o Frac6(micro % Million)

-----------------------------------------------------------------------------
(* State *)

VARIABLES
    pc,             \* where the script is
    env_key,        \* os.getenv("OPENAI_ADMIN_API_KEY")
    current_time,   \* int(time.time())
    next_page,      \* the cursor of fetch_all_cost_data
    total_usage,    \* the accumulator {"total_cost", "entries"}
    cost_info,      \* what the last call of get_openai_cost_and_usage returned
    response,       \* what the last request met
    request,        \* the last request issued
    call,           \* how the last Requester call ended: "returned" or "raised"
    nreq,           \* number of requests issued
    printed,        \* lines the last step printed
    files,          \* content of the two output files
    file_writes,    \* number of times each file was written
    served_count,   \* history: Results in the bodies returned so far
    served_sum      \* history: sum of their values

vars == <<pc, env_key, current_time, next_page, total_usage, cost_info, response,
          request, call, nreq, printed, files, file_writes, served_count, served_sum>>

FileNames == {"TotalCost.json", "TotalEntry.json"}
NoRequest == [url |-> "", authorization |-> ""]
NoResponse == [kind |-> "none", json |-> FALSE, decode |-> "RequestException", body |-> PyNone]

Init ==
    /\ pc = "main"
    /\ env_key \in EnvKeys
    /\ current_time \in Clock
    /\ next_page = None
    /\ total_usage = [total_cost |-> 0, entries |-> <<>>]
    /\ cost_info = PyNone
    /\ response = NoResponse
    /\ request = NoRequest
    /\ call = "none"
    /\ nreq = 0
    /\ printed = <<>>
    /\ files = [f \in FileNames |-> None]
    /\ file_writes = [f \in FileNames |-> 0]
    /\ served_count = 0
    /\ served_sum = 0

-----------------------------------------------------------------------------
(* get_openai_cost_and_usage *)

MsgHttpError == "HTTP Error: "
MsgResponseContent == "Response Content: "
MsgRequestError == "An error occurred while making the API request: "
MsgTraceback == "Traceback (most recent call last):"

CostUrl(start_time, cursor) ==
    LET cost_url == "https://api.openai.com/v1/organization/costs?start_time="
                        \o ToString(start_time)
    IN IF TruthyStr(cursor) THEN cost_url \o "&page=" \o cursor[1] ELSE cost_url

\* One call, meeting resp.  With raised the exception leaves the function and
\* value is not delivered.
get_openai_cost_and_usage(api_key, start_time, cursor, resp) ==
    LET req == [url |-> CostUrl(start_time, cursor),
                authorization |-> "Bearer " \o api_key]
        Return(v, lines) ==
            [request |-> req, raised |-> FALSE, value |-> v, printed |-> lines]
        Raise(lines) ==
            [request |-> req, raised |-> TRUE, value |-> PyNone,
             printed |-> Append(lines, MsgTraceback)]
    IN CASE resp.kind = "transport_error" -> Return(PyNone, <<MsgRequestError>>)
         [] resp.kind = "http_error" ->
                \* e.response.json() is evaluated inside the handler
                IF resp.json THEN Return(PyNone, <<MsgHttpError, MsgResponseContent>>)
                ELSE Raise(<<MsgHttpError>>)
         [] resp.kind = "ok" ->
                IF resp.json THEN Return(resp.body, <<>>)
                ELSE IF resp.decode = "RequestException"
                     THEN Return(PyNone, <<MsgRequestError>>)
                     ELSE Raise(<<>>)

-----------------------------------------------------------------------------
(* process_and_display_cost_info *)

MsgNoData == "No valid cost data available."
MsgTimeRange == "Time Range: "
MsgMore == "More data is available. Fetching additional pages..."

\* result.get("amount", {}).get("value", 0)
AmountValue(result) == Get(Get(result.amount, [value |-> None]).value, 0)

\* AddResult with "=" for "+=" on total_cost
AddResultAssign(result, acc) ==
    LET amount == Get(Get(result.amount, [value |-> None]).value, 0)
    IN [total_cost |-> amount,
        entries |-> Append(acc.entries, result),
        printed |-> Append(acc.printed, "  - Cost: $" \o Fmt6(amount))]

\* The body of "for result in results"; acc carries the accumulator and the
\* lines printed so far
AddResult(result, acc) ==
    LET amount == AmountValue(result)
    IN [total_cost |-> acc.total_cost + amount,
        entries |-> Append(acc.entries, result),
        printed |-> Append(acc.printed, "  - Cost: $" \o Fmt6(amount))]

RECURSIVE AddResults(_, _)
AddResults(results, acc) ==
    IF results = <<>> THEN acc
    ELSE AddResults(Tail(results), AddResult(Head(results), acc))

\* AddBucket that takes only the first result of a bucket
AddBucketFirstOnly(bucket, acc) ==
    LET results == Get(bucket.results, <<>>)
    IN IF results # <<>>
       THEN AddResults(<<Head(results)>>, [acc EXCEPT !.printed = Append(@, MsgTimeRange)])
       ELSE acc

\* The body of "for bucket in cost_info.get('data', [])"
AddBucket(bucket, acc) ==
    LET results == Get(bucket.results, <<>>)
    IN IF results # <<>>
       THEN AddResults(results, [acc EXCEPT !.printed = Append(@, MsgTimeRange)])
       ELSE acc

RECURSIVE AddBuckets(_, _)
AddBuckets(buckets, acc) ==
    IF buckets = <<>> THEN acc
    ELSE AddBuckets(Tail(buckets), AddBucket(Head(buckets), acc))

\* Returns the accumulator after the call and the lines printed by it
process_and_display_cost_info(info, usage) ==
    IF ~Truthy(info) \/ DataNotIn(info)
    THEN [total_cost |-> usage.total_cost, entries |-> usage.entries,
          printed |-> <<MsgNoData>>]
    ELSE LET acc == AddBuckets(Get(info.data, <<>>),
                               [total_cost |-> usage.total_cost,
                                entries |-> usage.entries, printed |-> <<>>])
         IN IF TruthyFlag(info.has_more)
            THEN [acc EXCEPT !.printed = Append(@, MsgMore)]
            ELSE acc

-----------------------------------------------------------------------------
(* __main__ *)

ThirtyDays == 30 * 24 * 60 * 60

MsgSetKey == "Please set your API key in the code or as an environment variable."
MsgQuerying == "Querying cost and usage data from "

\* openai_admin_api_key without the fallback to the placeholder
openai_admin_api_key_no_fallback(env) == IF env # None THEN env[1] ELSE ""

\* os.getenv("OPENAI_ADMIN_API_KEY") or "your_openai_admin_key_here"
openai_admin_api_key(env) == IF TruthyStr(env) THEN env[1] ELSE PLACEHOLDER

StartTime == current_time - ThirtyDays

\* The script body: the guidance and the end, or the call of
\* fetch_all_cost_data up to the head of its loop
Main ==
    /\ pc = "main"
    /\ IF openai_admin_api_key(env_key) = PLACEHOLDER
       THEN /\ pc' = "EXIT"
            /\ printed' = <<MsgSetKey>>
       ELSE /\ pc' = "FETCHING"
            /\ printed' = <<MsgQuerying>>
    /\ next_page' = None
    /\ total_usage' = [total_cost |-> 0, entries |-> <<>>]
    /\ UNCHANGED <<env_key, current_time, cost_info, response, request, call, nreq,
                   files, file_writes, served_count, served_sum>>

-----------------------------------------------------------------------------
(* fetch_all_cost_data *)

MsgFailed == "Failed to retrieve cost and usage information."
MsgSummary == "Summary of Usage for Last 30 Days:"
MsgCreated == "Summary JSON files created: TotalCost.json and TotalEntry.json"

\* AfterFetch that tries again after a failure
AfterFetchRetry(v) == IF v.kind # "None" THEN "AGGREGATING" ELSE "FETCHING"

\* Where the loop goes once the Requester has returned v ("if cost_info:")
AfterFetch(v) == IF Truthy(v) THEN "AGGREGATING" ELSE "DONE"

\* FETCHING: one call of the Requester and the test of what it returned
Fetch ==
    /\ pc = "FETCHING"
    /\ nreq < MaxFetch
    /\ served_count <= MaxEntries
    /\ \E resp \in Responses[MaxEntries - served_count] :
         LET r == get_openai_cost_and_usage(openai_admin_api_key(env_key),
                                            StartTime, next_page, resp)
         IN /\ response' = resp
            /\ request' = r.request
            /\ nreq' = nreq + 1
            /\ call' = IF r.raised THEN "raised" ELSE "returned"
            /\ IF r.raised
               THEN /\ pc' = "CRASHED"
                    /\ printed' = r.printed
                    /\ UNCHANGED <<cost_info, served_count, served_sum>>
               ELSE /\ cost_info' = r.value
                    /\ pc' = AfterFetch(r.value)
                    /\ printed' = IF AfterFetch(r.value) = "DONE"
                                  THEN Append(r.printed, MsgFailed)
                                  ELSE r.printed
                    /\ served_count' = served_count + ResultCount(r.value)
                    /\ served_sum' = served_sum + ValueSum(r.value)
    /\ UNCHANGED <<env_key, current_time, next_page, total_usage, files, file_writes>>

\* Where the loop goes after the Aggregator ("if cost_info.get('has_more'):")
AfterAggregate(info) == IF TruthyFlag(info.has_more) THEN "FETCHING" ELSE "DONE"

\* The cursor of the next request (next_page = cost_info.get("next_page")):
\* None when the key is absent
NextCursor(info) == info.next_page

\* AGGREGATING: the Aggregator on the page, then the has_more test.  A body
\* that is not a dict has no get: AttributeError leaves the script.
Aggregate ==
    /\ pc = "AGGREGATING"
    /\ LET acc == process_and_display_cost_info(cost_info, total_usage)
       IN /\ total_usage' = [total_cost |-> acc.total_cost, entries |-> acc.entries]
          /\ IF cost_info.kind # "dict"
             THEN /\ pc' = "CRASHED"
                  /\ printed' = Append(acc.printed, MsgTraceback)
                  /\ UNCHANGED next_page
             ELSE /\ pc' = AfterAggregate(cost_info)
                  /\ printed' = acc.printed
                  /\ next_page' = IF AfterAggregate(cost_info) = "FETCHING"
                                  THEN NextCursor(cost_info)
                                  ELSE next_page
    /\ UNCHANGED <<env_key, current_time, cost_info, response, request, call, nreq,
                   files, file_writes, served_count, served_sum>>

CostMessage(usage) == "$" \o Fmt6(usage.total_cost) \o " USD"
EntryMessage(usage) == ToString(Len(usage.entries))

TotalCostJson(usage) ==
    [schemaVersion |-> 1, label |-> "Total Cost for Last 30 Days",
     message |-> CostMessage(usage), color |-> "blue"]

TotalEntryJson(usage) ==
    [schemaVersion |-> 1, label |-> "Total Entries for Last 30 Days",
     message |-> EntryMessage(usage), color |-> "yellow"]

\* DONE: the summary and the two files
Report ==
    /\ pc = "DONE"
    /\ pc' = "REPORTED"
    /\ printed' = <<MsgSummary,
                    "Total Cost: $" \o Fmt6(total_usage.total_cost) \o " USD",
                    "Total Entries: " \o ToString(Len(total_usage.entries)),
                    MsgCreated>>
    /\ files' = [files EXCEPT !["TotalCost.json"] = Some(TotalCostJson(total_usage)),
                              !["TotalEntry.json"] = Some(TotalEntryJson(total_usage))]
    /\ file_writes' = [f \in FileNames |-> file_writes[f] + 1]
    /\ UNCHANGED <<env_key, current_time, next_page, total_usage, cost_info,
                   response, request, call, nreq, served_count, served_sum>>

Next == Main \/ Fetch \/ Aggregate \/ Report

Spec == Init /\ [][Next]_vars

-----------------------------------------------------------------------------
(* Properties *)

Range(seq) == {seq[i] : i \in DOMAIN seq}

\* The Requester signalled failure: its last call returned None
RequesterFailed == call = "returned" /\ cost_info = PyNone

LoopEnded == pc \in {"DONE", "REPORTED"}

\* Sum of the values of a list of Results, a missing amount or value being 0
EntriesSum(entries) == SumTo([i \in 1..Len(entries) |-> ValueOf(entries[i])], Len(entries))

R(v) == [amount |-> Some([value |-> Some(v)])]

\* C1: when a page without has_more = true has been aggregated the loop ends
\* (the next step reaches DONE), and once the loop has ended the number of
\* entries is the number of Results in all the pages returned.
C1_EntriesCountAtDone ==
    /\ [](LoopEnded => Len(total_usage.entries) = served_count)
    /\ [][(pc = "AGGREGATING" /\ cost_info.kind = "dict"
            /\ cost_info.has_more # Some(TRUE)) => pc' = "DONE"]_vars

\* Two pages, two buckets in the last one, ended by has_more = false
C1_Witness ==
    /\ pc = "DONE" /\ nreq = 2 /\ call = "returned"
    /\ cost_info.kind = "dict" /\ cost_info.has_more = Some(FALSE)
    /\ cost_info.data # None /\ Len(cost_info.data[1]) = 2
    /\ Len(total_usage.entries) = 2 /\ served_count = 2

\* C2: in every state total_cost is the sum of amount.value over the entries,
\* a Result without amount or value counting as 0.
C2_TotalCostIsSumOfEntries ==
    total_usage.total_cost = EntriesSum(total_usage.entries)

C2_Witness ==
    /\ pc = "FETCHING"
    /\ total_usage.entries = <<R(1234567), [amount |-> None]>>
    /\ total_usage.total_cost = 1234567

FilesWritten == \A f \in FileNames : files[f] # None

\* C3: once the Requester has signalled failure the loop has ended and no
\* further request is issued; the only step left writes both files, and the
\* files hold the count and the sum of the Results of the pages returned
\* before the failure ("$0.000000 USD" and "0" when the first fetch failed).
C3_FailureAbortsAndReports ==
    /\ [](RequesterFailed =>
            /\ LoopEnded
            /\ pc = "DONE" => ENABLED Report
            /\ pc = "REPORTED" =>
                /\ FilesWritten
                /\ files["TotalCost.json"][1].message
                       = "$" \o Fmt6(served_sum) \o " USD"
                /\ files["TotalEntry.json"][1].message = ToString(served_count)
                /\ nreq = 1 =>
                    /\ files["TotalCost.json"][1].message = "$0.000000 USD"
                    /\ files["TotalEntry.json"][1].message = "0")
    /\ [][RequesterFailed =>
            /\ nreq' = nreq
            /\ pc = "DONE" => (pc' = "REPORTED" /\ FilesWritten')]_vars

\* The second fetch failed after a page with Results
C3_Witness ==
    /\ pc = "REPORTED" /\ RequesterFailed /\ nreq = 2
    /\ served_count = 2 /\ served_sum = 3234567
    /\ files["TotalCost.json"][1].message = "$3.234567 USD"
    /\ files["TotalEntry.json"][1].message = "2"

BaseUrl ==
    "https://api.openai.com/v1/organization/costs?start_time="
        \o ToString(current_time - ThirtyDays)

\* A request is issued in this step
Requests == pc = "FETCHING" /\ nreq' = nreq + 1

\* C4 as stated: the first request carries no cursor, and the request after
\* a page with has_more = true and next_page = c carries page=c, for every c.
C4_CursorSentForEveryCursor ==
    [][Requests =>
         /\ nreq = 0 => request'.url = BaseUrl
         /\ (nreq > 0 /\ cost_info.has_more = Some(TRUE) /\ cost_info.next_page # None)
                => request'.url = BaseUrl \o "&page=" \o cost_info.next_page[1]]_vars

\* C4 restricted to the cursors other than the empty string, which is where
\* the code agrees with it: the request after a page whose next_page is ""
\* carries no page parameter.
C4_CursorSentForNonEmptyCursor ==
    [][Requests =>
         /\ nreq = 0 => request'.url = BaseUrl
         /\ (nreq > 0 /\ cost_info.has_more = Some(TRUE) /\ cost_info.next_page # None
               /\ cost_info.next_page[1] # "")
                => request'.url = BaseUrl \o "&page=" \o cost_info.next_page[1]
         /\ (nreq > 0 /\ cost_info.has_more = Some(TRUE) /\ cost_info.next_page = Some(""))
                => request'.url = BaseUrl]_vars

\* C5 as stated: a request that meets a transport failure or an error status
\* makes the Requester return None, never raise, and the run goes on to DONE.
C5_RequesterNeverRaises ==
    response.kind \in {"transport_error", "http_error"} =>
        /\ call = "returned"
        /\ cost_info = PyNone
        /\ LoopEnded

\* C6 as stated: on a page whose data list is empty the Aggregator prints the
\* notice and leaves the accumulator as it was.
C6_EmptyDataNoticeAndFrame ==
    [][(pc = "AGGREGATING" /\ cost_info.kind = "dict" /\ cost_info.data = Some(<<>>)) =>
         /\ MsgNoData \in Range(printed')
         /\ total_usage' = total_usage]_vars

\* C7: with the key unset, or set to the placeholder, the script prints the
\* guidance and ends: no request is issued, the loop of fetch_all_cost_data
\* is never entered and no file is written.
C7_NoKeyNoRun ==
    env_key \in {None, Some(PLACEHOLDER)} =>
        /\ pc \in {"main", "EXIT"}
        /\ pc = "EXIT" => printed = <<MsgSetKey>>
        /\ nreq = 0 /\ request = NoRequest
        /\ \A f \in FileNames : files[f] = None /\ file_writes[f] = 0

C7_Witness == pc = "EXIT" /\ env_key = None /\ printed = <<MsgSetKey>>

\* The two pages of the end-to-end scenario have been aggregated
TwoPageScenario ==
    /\ nreq = 2
    /\ next_page = Some("p2")
    /\ cost_info.has_more = Some(FALSE)
    /\ cost_info.data = Some(<<[results |-> Some(<<R(2000000)>>)]>>)
    /\ total_usage.entries = <<R(1234567), R(2000000)>>

\* C8: no file is written before the loop has ended and the summary step has
\* run; that step writes each file once, the messages being the total cost
\* to six decimals between "$" and " USD" and the number of entries; in the
\* two-page scenario they are "$3.234567 USD" and "2".
C8_FilesAtDone ==
    /\ pc # "REPORTED" => \A f \in FileNames : files[f] = None /\ file_writes[f] = 0
    /\ pc = "REPORTED" =>
        /\ \A f \in FileNames : files[f] # None /\ file_writes[f] = 1
        /\ files["TotalCost.json"][1] =
               [schemaVersion |-> 1, label |-> "Total Cost for Last 30 Days",
                message |-> "$" \o Fmt6(total_usage.total_cost) \o " USD",
                color |-> "blue"]
        /\ files["TotalEntry.json"][1] =
               [schemaVersion |-> 1, label |-> "Total Entries for Last 30 Days",
                message |-> ToString(Len(total_usage.entries)), color |-> "yellow"]
        /\ TwoPageScenario =>
            /\ files["TotalCost.json"][1].message = "$3.234567 USD"
            /\ files["TotalEntry.json"][1].message = "2"

C8_Witness == pc = "REPORTED" /\ TwoPageScenario /\ FilesWritten

\* C9 as stated: a FETCHING step goes to DONE exactly when the Requester
\* signalled failure, and to AGGREGATING whenever the Requester returned a
\* parsed JSON body, the empty object included.
C9_DoneIffRequesterFailed ==
    [][Requests =>
         /\ pc' = "DONE" <=> (call' = "returned" /\ cost_info' = PyNone)
         /\ (call' = "returned" /\ cost_info' # PyNone) => pc' = "AGGREGATING"]_vars

\* C10 as stated: a returned page without the data field reaches the
\* Aggregator, which prints the notice and leaves the accumulator as it was;
\* the loop then fetches again if has_more is true and ends otherwise.
C10_MissingDataSkipsPage ==
    /\ [][(Requests /\ call' = "returned" /\ cost_info'.kind = "dict"
             /\ cost_info'.data = None) => pc' = "AGGREGATING"]_vars
    /\ [][(pc = "AGGREGATING" /\ cost_info.kind = "dict" /\ cost_info.data = None) =>
             /\ MsgNoData \in Range(printed')
             /\ total_usage' = total_usage
             /\ pc' = IF cost_info.has_more = Some(TRUE) THEN "FETCHING" ELSE "DONE"]_vars

====
